---- MODULE Spec2Model ----
(***************************************************************************)
(* A model of WebGLProfiler (webgl-profiler.ts): nested named contexts     *)
(* multiplexed onto the single EXT_disjoint_timer_query timer, the FIFO    *)
(* resolution of the pending queries into timestamps, and the export of    *)
(* the resolved events as a speedscope evented profile.                    *)
(*                                                                         *)
(* The profiler object is the record Cur (one field per private field of   *)
(* the class plus the state of the extension's query objects); every       *)
(* method is an operator from such a record to the record after the call,  *)
(* whose field err holds the Error the call threw ("none" when it returned *)
(* normally).  An action is one whole call of a public method, or one step *)
(* of the GPU.                                                             *)
(***************************************************************************)
EXTENDS Integers, Sequences, FiniteSets, TLC

\* ------------------------------------------------------------- bounds
\* The number of createQueryEXT() calls a behaviour of Spec makes, and with
\* it the depth of the context stack.
MaxQueries == 4

\* The same for the well-nested sessions of SessionSpec.
MaxSessionQueries == 7

\* The context names the caller pushes: "toString" is a name every
\* JavaScript object inherits from Object.prototype. A caller may name the
\* root context, which start() pushes, in a popContext.
Names == {"a", "toString"}
BuiltinNames == {"toString"}
RootName == "profile"
PopNames == Names \cup {RootName}

\* The values QUERY_RESULT_EXT reports (non-negative durations).
Elapsed == {0, 1}

\* The overlapping exportSpeedscopeProfile() calls.
Exporters == {1, 2}

\* ------------------------------------------------------------- values
NoQuery == 0
NoFrame == -1

OPEN_FRAME == "OPEN_FRAME"
CLOSE_FRAME == "CLOSE_FRAME"

OpenAction(name) == [type |-> OPEN_FRAME, name |-> name]
CloseAction(name) == [type |-> CLOSE_FRAME, name |-> name]

Front(s) == SubSeq(s, 1, Len(s) - 1)
Last(s) == s[Len(s)]

VARIABLES
    ext,                      \* the EXT_disjoint_timer_query extension is there
    denylisted,               \* the renderer is an NVIDIA GeForce GT 750M
    isRunning,
    activeQuery,
    eventsPendingTimestamps,
    resolvedEvents,
    namedContextStack,
    queries,                  \* the extension's query objects, by handle
    withStack,                \* the withContext calls whose callback runs
    exportPc,                 \* each exportSpeedscopeProfile call's position
    result,                   \* the profile the last step returned, if any
    thrown,                   \* the Error the last step threw, "none" if none
    marks,                    \* history: actions of the push/pop calls that returned
    open,                     \* history: the contexts a well-nested caller has open
    exported                  \* history: what each export call returned last

profilerVars == <<isRunning, activeQuery, eventsPendingTimestamps,
                  resolvedEvents, namedContextStack>>
envVars == <<ext, denylisted>>
vars == <<ext, denylisted, isRunning, activeQuery, eventsPendingTimestamps,
          resolvedEvents, namedContextStack, queries, withStack, exportPc,
          result, thrown, marks, open, exported>>

\* ------------------------------------------------ the extension (GPU side)
\* A query object is "created" (never begun), "active" (begun, not ended),
\* "ended" (its commands are queued, the result is not there yet),
\* "available" or "deleted". Handles are 1, 2, ... in creation order.
createQueryEXT(qs) == Append(qs, "created")

CurrentQuery(qs) ==
    IF \E h \in 1..Len(qs) : qs[h] = "active"
    THEN CHOOSE h \in 1..Len(qs) : qs[h] = "active"
    ELSE NoQuery

\* Only one query can be active at a time: beginning a second one is an
\* INVALID_OPERATION, which leaves the query objects as they are.
beginQueryEXT(qs, h) ==
    IF CurrentQuery(qs) # NoQuery \/ qs[h] # "created"
    THEN qs
    ELSE [qs EXCEPT ![h] = "active"]

endQueryEXT(qs) ==
    IF CurrentQuery(qs) = NoQuery
    THEN qs
    ELSE [qs EXCEPT ![CurrentQuery(qs)] = "ended"]

\* getQueryObjectEXT(query, QUERY_RESULT_AVAILABLE_EXT): null (falsy) for a
\* query that is deleted, active or was never begun.
ResultAvailable(qs, h) == qs[h] = "available"

deleteQueryEXT(qs, h) == [qs EXCEPT ![h] = "deleted"]

\* ------------------------------------------------------ the profiler
Cur ==
    [isRunning |-> isRunning,
     activeQuery |-> activeQuery,
     pending |-> eventsPendingTimestamps,
     resolved |-> resolvedEvents,
     stack |-> namedContextStack,
     qs |-> queries,
     err |-> "none"]

Throw(s, e) == [s EXCEPT !.err = e]

isProfilerRunning == isRunning

markAction(s, action) ==
    IF ~ext THEN s
    ELSE IF s.activeQuery = NoQuery THEN Throw(s, "NoActiveProfile")
    ELSE LET oldQuery == s.activeQuery
             qs1 == createQueryEXT(s.qs)
             new == Len(qs1)
             qs2 == beginQueryEXT(endQueryEXT(qs1), new)
         IN  [s EXCEPT !.activeQuery = new,
                       !.qs = qs2,
                       !.pending = Append(@, [action |-> action, query |-> oldQuery])]

pushContext(s, name) ==
    LET r == markAction(s, OpenAction(name))
    IN  IF r.err # "none" THEN r
        ELSE [r EXCEPT !.stack = Append(@, name)]

\* popContext marking the wrong kind of action: OPEN_FRAME for CLOSE_FRAME.
popContextMarksOpen(s, name) ==
    IF s.stack = <<>> THEN Throw(s, "EmptyStack")
    ELSE LET popped == Last(s.stack)
             s1 == [s EXCEPT !.stack = Front(@)]
         IN  IF popped # name THEN Throw(s1, "Mismatch")
             ELSE markAction(s1, OpenAction(name))

popContext(s, name) ==
    IF s.stack = <<>> THEN Throw(s, "EmptyStack")
    ELSE LET popped == Last(s.stack)
             s1 == [s EXCEPT !.stack = Front(@)]
         IN  IF popped # name THEN Throw(s1, "Mismatch")
             ELSE markAction(s1, CloseAction(name))

\* start resetting the two lists before it tests isRunning.
startResetsFirst(s) ==
    IF ~ext THEN Throw(s, "NoExtension")
    ELSE LET s0 == [s EXCEPT !.pending = <<>>, !.resolved = <<>>]
         IN  IF s.isRunning THEN Throw(s0, "AlreadyRunning")
             ELSE IF denylisted THEN Throw(s0, "Denylisted")
             ELSE LET qs1 == createQueryEXT(s0.qs)
                      q == Len(qs1)
                      s1 == [s0 EXCEPT !.isRunning = TRUE,
                                       !.activeQuery = q,
                                       !.qs = beginQueryEXT(qs1, q)]
                  IN  pushContext(s1, RootName)

start(s) ==
    IF ~ext THEN Throw(s, "NoExtension")
    ELSE IF s.isRunning THEN Throw(s, "AlreadyRunning")
    ELSE IF denylisted THEN Throw(s, "Denylisted")
    ELSE LET qs1 == createQueryEXT(s.qs)
             q == Len(qs1)
             s1 == [s EXCEPT !.isRunning = TRUE,
                             !.pending = <<>>,
                             !.resolved = <<>>,
                             !.activeQuery = q,
                             !.qs = beginQueryEXT(qs1, q)]
         IN  pushContext(s1, RootName)

\* stop without its endQueryEXT: the last query stays active.
stopKeepsQuery(s) ==
    IF ~ext THEN s
    ELSE IF ~s.isRunning THEN Throw(s, "AlreadyStopped")
    ELSE LET r == popContext([s EXCEPT !.isRunning = FALSE], RootName)
         IN  IF r.err # "none" THEN r
             ELSE [r EXCEPT !.activeQuery = NoQuery]

stop(s) ==
    IF ~ext THEN s
    ELSE IF ~s.isRunning THEN Throw(s, "AlreadyStopped")
    ELSE LET r == popContext([s EXCEPT !.isRunning = FALSE], RootName)
         IN  IF r.err # "none" THEN r
             ELSE [r EXCEPT !.activeQuery = NoQuery, !.qs = endQueryEXT(@)]

\* The timestamp without the running sum: the duration alone.
NextTimestampNoBase(res, elapsed) == elapsed

\* getQueryObjectEXT(query, QUERY_RESULT_EXT) being elapsed, the timestamp
\* of the event it resolves.
NextTimestamp(res, elapsed) ==
    LET lastTimestamp == IF Len(res) = 0 THEN 0 ELSE Last(res).timestamp
    IN  lastTimestamp + elapsed

\* The loop reading GPU_DISJOINT_EXT after it has resolved the entry (with
\* the duration 0) instead of before.
RECURSIVE ResolveLoopFlagLate(_, _, _, _)
ResolveLoopFlagLate(s, i, d, es) ==
    IF i >= Len(s.pending) THEN [s |-> s, i |-> i]
    ELSE LET pendingAction == s.pending[i + 1]
             query == pendingAction.query
             elapsed == IF d = i + 1 THEN 0 ELSE es[i + 1]
             s1 == [s EXCEPT !.qs = deleteQueryEXT(@, query),
                             !.resolved = Append(@,
                                 [action |-> pendingAction.action,
                                  timestamp |-> NextTimestamp(s.resolved, elapsed)])]
         IN  IF ~ResultAvailable(s.qs, query) THEN [s |-> s, i |-> i]
             ELSE IF d = i + 1 THEN [s |-> Throw(s1, "GPU_DISJOINT_EXT"), i |-> i]
             ELSE ResolveLoopFlagLate(s1, i + 1, d, es)

\* The loop passing over an entry whose result is not available instead of
\* stopping at it.
RECURSIVE ResolveLoopSkips(_, _, _, _)
ResolveLoopSkips(s, i, d, es) ==
    IF i >= Len(s.pending) THEN [s |-> s, i |-> i]
    ELSE LET pendingAction == s.pending[i + 1]
             query == pendingAction.query
             elapsed == IF i + 1 \in DOMAIN es THEN es[i + 1] ELSE 1
         IN  IF ~ResultAvailable(s.qs, query) THEN ResolveLoopSkips(s, i + 1, d, es)
             ELSE IF d = i + 1 THEN [s |-> Throw(s, "GPU_DISJOINT_EXT"), i |-> i]
             ELSE ResolveLoopSkips(
                    [s EXCEPT !.qs = deleteQueryEXT(@, query),
                              !.resolved = Append(@,
                                  [action |-> pendingAction.action,
                                   timestamp |-> NextTimestamp(s.resolved, elapsed)])],
                    i + 1, d, es)

\* The while loop of resolveEventsIfPossible from index i on. d is the
\* iteration (1-based) in which GPU_DISJOINT_EXT reads true, 0 if it never
\* does; es[j] is the duration QUERY_RESULT_EXT reports in iteration j.
RECURSIVE ResolveLoop(_, _, _, _)
ResolveLoop(s, i, d, es) ==
    IF i >= Len(s.pending) THEN [s |-> s, i |-> i]
    ELSE LET pendingAction == s.pending[i + 1]
             query == pendingAction.query
         IN  IF ~ResultAvailable(s.qs, query) THEN [s |-> s, i |-> i]
             ELSE IF d = i + 1 THEN [s |-> Throw(s, "GPU_DISJOINT_EXT"), i |-> i]
             ELSE ResolveLoop(
                    [s EXCEPT !.qs = deleteQueryEXT(@, query),
                              !.resolved = Append(@,
                                  [action |-> pendingAction.action,
                                   timestamp |-> NextTimestamp(s.resolved, es[i + 1])])],
                    i + 1, d, es)

resolveEventsIfPossible(s, d, es) ==
    IF ~ext THEN s
    ELSE LET w == ResolveLoop(s, 0, d, es)
         IN  IF w.s.err # "none" THEN w.s
             ELSE IF w.i > 0
                  THEN [w.s EXCEPT !.pending = SubSeq(@, w.i + 1, Len(@))]
                  ELSE w.s

\* The number of leading pending entries whose result is available: the
\* iterations the loop can make.
RECURSIVE AvailablePrefix(_, _)
AvailablePrefix(pend, qs) ==
    IF pend = <<>> \/ ~ResultAvailable(qs, Head(pend).query) THEN 0
    ELSE 1 + AvailablePrefix(Tail(pend), deleteQueryEXT(qs, Head(pend).query))

\* ------------------------------------------------------ the exporter
\* frameToIndex is an object literal: `name in frameToIndex` holds for the
\* names inserted before and for the names Object.prototype defines.
InFrameToIndex(frames, name) ==
    name \in BuiltinNames \/ \E i \in 1..Len(frames) : frames[i].name = name

InsertFrame(frames, name) ==
    IF InFrameToIndex(frames, name) THEN frames
    ELSE Append(frames, [name |-> name])

\* frameToIndex[name] after the insertion: the 0-based index of the frame,
\* or, for an inherited name, a function of Object.prototype, which
\* JSON.stringify leaves out of the event (NoFrame).
getOrInsertFrame(frames, name) ==
    LET after == InsertFrame(frames, name)
    IN  IF \E i \in 1..Len(after) : after[i].name = name
        THEN (CHOOSE i \in 1..Len(after) : after[i].name = name) - 1
        ELSE NoFrame

RECURSIVE FramesOf(_)
FramesOf(res) ==
    IF res = <<>> THEN <<>>
    ELSE InsertFrame(FramesOf(Front(res)), Last(res).action.name)

SpeedscopeEvent(res, k) ==
    [type |-> IF res[k].action.type = OPEN_FRAME THEN "O" ELSE "C",
     frame |-> getOrInsertFrame(FramesOf(SubSeq(res, 1, k - 1)), res[k].action.name),
     at |-> res[k].timestamp]

NoProfile == [frames |-> <<>>, events |-> <<>>, startValue |-> 0, endValue |-> 0]

\* toSpeedscopeProfile taking a single resolved event for an empty profile.
toSpeedscopeProfileOffByOne(res) ==
    IF Len(res) <= 1 THEN [file |-> NoProfile, err |-> "EmptyProfile"]
    ELSE [file |-> [frames |-> FramesOf(res),
                    events |-> [k \in 1..Len(res) |-> SpeedscopeEvent(res, k)],
                    startValue |-> 0,
                    endValue |-> Last(res).timestamp],
          err |-> "none"]

\* The file toSpeedscopeProfile serialises (its variable fields), and the
\* Error it throws instead when nothing is resolved.
toSpeedscopeProfile(res) ==
    IF Len(res) = 0 THEN [file |-> NoProfile, err |-> "EmptyProfile"]
    ELSE [file |-> [frames |-> FramesOf(res),
                    events |-> [k \in 1..Len(res) |-> SpeedscopeEvent(res, k)],
                    startValue |-> 0,
                    endValue |-> Last(res).timestamp],
          err |-> "none"]

\* ------------------------------------------------------------ actions
\* No export call has returned a profile, and no two calls have waited at
\* the same time.
NoExports == [file |-> [e \in Exporters |-> NoProfile], overlapped |-> FALSE]

Commit(r) ==
    /\ isRunning' = r.isRunning
    /\ activeQuery' = r.activeQuery
    /\ eventsPendingTimestamps' = r.pending
    /\ resolvedEvents' = r.resolved
    /\ namedContextStack' = r.stack
    /\ queries' = r.qs
    /\ thrown' = r.err

Init ==
    /\ ext \in BOOLEAN
    /\ denylisted \in BOOLEAN
    /\ isRunning = FALSE
    /\ activeQuery = NoQuery
    /\ eventsPendingTimestamps = <<>>
    /\ resolvedEvents = <<>>
    /\ namedContextStack = <<>>
    /\ queries = <<>>
    /\ withStack = <<>>
    /\ exportPc = [e \in Exporters |-> "idle"]
    /\ result = NoProfile
    /\ thrown = "none"
    /\ marks = <<>>
    /\ open = <<>>
    /\ exported = NoExports

Start ==
    LET r == start(Cur)
    IN  /\ Commit(r)
        /\ result' = NoProfile
        /\ marks' = IF r.err = "none" THEN <<OpenAction(RootName)>> ELSE marks
        /\ UNCHANGED <<envVars, withStack, exportPc>>

Stop ==
    LET r == stop(Cur)
    IN  /\ Commit(r)
        /\ result' = NoProfile
        /\ marks' = IF r.err = "none" /\ ext THEN Append(marks, CloseAction(RootName))
                    ELSE marks
        /\ UNCHANGED <<envVars, withStack, exportPc>>

\* The history of a push/pop call of `action`: it is one more of the
\* session's calls when it returned and a start() has succeeded before.
Marked(r, action) ==
    IF r.err = "none" /\ marks # <<>> THEN Append(marks, action) ELSE marks

PushContext(name) ==
    LET r == pushContext(Cur, name)
    IN  /\ Commit(r)
        /\ result' = NoProfile
        /\ marks' = Marked(r, OpenAction(name))
        /\ UNCHANGED <<envVars, withStack, exportPc>>

PopContext(name) ==
    LET r == popContext(Cur, name)
    IN  /\ Commit(r)
        /\ result' = NoProfile
        /\ marks' = Marked(r, CloseAction(name))
        /\ UNCHANGED <<envVars, withStack, exportPc>>

\* withContext(name, callback) up to the call of the callback: the callback
\* runs (makes calls of its own) while its frame is on withStack.
WithContextCall(name) ==
    LET r == pushContext(Cur, name)
    IN  /\ Commit(r)
        /\ result' = NoProfile
        /\ marks' = Marked(r, OpenAction(name))
        /\ withStack' = IF r.err = "none" THEN Append(withStack, name) ELSE withStack
        /\ UNCHANGED <<envVars, exportPc>>

\* The callback returned: withContext goes on to popContext(name).
WithContextReturn ==
    /\ withStack # <<>>
    /\ LET name == Last(withStack)
           r == popContext(Cur, name)
       IN  /\ Commit(r)
           /\ result' = NoProfile
           /\ marks' = Marked(r, CloseAction(name))
           /\ withStack' = Front(withStack)
           /\ UNCHANGED <<envVars, exportPc>>

\* The callback threw: withContext is left without its popContext.
WithContextThrow ==
    /\ withStack # <<>>
    /\ withStack' = Front(withStack)
    /\ thrown' = "CallbackError"
    /\ result' = NoProfile
    /\ UNCHANGED <<envVars, profilerVars, queries, exportPc, marks>>

\* The turn of an export whose loop is an `if`: it returns what is resolved
\* after one resolveEventsIfPossible, whatever is still pending.
ExportTurnReturnsEarly(e, d, es) ==
    LET r == IF Len(eventsPendingTimestamps) = 0 THEN Cur
             ELSE resolveEventsIfPossible(Cur, d, es)
        p == toSpeedscopeProfile(r.resolved)
    IN  IF r.err # "none" \/ p.err # "none"
        THEN /\ Commit([r EXCEPT !.err = IF r.err # "none" THEN r.err ELSE p.err])
             /\ result' = NoProfile
             /\ exportPc' = [exportPc EXCEPT ![e] = "idle"]
             /\ UNCHANGED <<envVars, withStack, marks>>
        ELSE /\ Commit(r)
             /\ result' = p.file
             /\ exportPc' = [exportPc EXCEPT ![e] = "idle"]
             /\ UNCHANGED <<envVars, withStack, marks>>

\* One turn of exportSpeedscopeProfile's loop: the test of the while, and
\* either the return through toSpeedscopeProfile or resolveEventsIfPossible
\* and the wait for the next animation frame. d and es are what the GPU
\* reports to this turn's resolveEventsIfPossible.
ExportTurn(e, d, es) ==
    IF Len(eventsPendingTimestamps) = 0
    THEN LET p == toSpeedscopeProfile(resolvedEvents)
         IN  /\ result' = p.file
             /\ thrown' = p.err
             /\ exportPc' = [exportPc EXCEPT ![e] = "idle"]
             /\ UNCHANGED <<envVars, profilerVars, queries, withStack, marks>>
    ELSE LET r == resolveEventsIfPossible(Cur, d, es)
         IN  /\ Commit(r)
             /\ result' = NoProfile
             /\ exportPc' = [exportPc EXCEPT
                               ![e] = IF r.err = "none" THEN "waiting" ELSE "idle"]
             /\ UNCHANGED <<envVars, withStack, marks>>

\* What the GPU can report to a turn: the flag in iteration d (0: never) of
\* the iterations the loop can make, and a duration in D for each one it
\* makes.
Reports(D) ==
    LET n == AvailablePrefix(eventsPendingTimestamps, queries)
    IN  UNION {{[d |-> d, es |-> es] :
                  es \in [1..(IF d = 0 THEN n ELSE d - 1) -> D]} : d \in 0..n}

\* The reports of a GPU that never raises the flag.
QuietReports(D) == {g \in Reports(D) : g.d = 0}

\* The call of exportSpeedscopeProfile: its first turn. G is what the GPU
\* can report.
ExportCall(e, G) ==
    /\ exportPc[e] = "idle"
    /\ \E g \in G : ExportTurn(e, g.d, g.es)

\* requestAnimationFrame's callback, the next turn: not while a withContext
\* callback runs.
ExportResume(e, G) ==
    /\ exportPc[e] = "waiting"
    /\ withStack = <<>>
    /\ \E g \in G : ExportTurn(e, g.d, g.es)

\* The GPU finishes an ended query: its result becomes available. The
\* queries finish in the order in which they were queued.
GpuComplete(h) ==
    /\ queries[h] = "ended"
    /\ \A g \in 1..(h - 1) : queries[g] # "ended"
    /\ queries' = [queries EXCEPT ![h] = "available"]
    /\ thrown' = "none"
    /\ result' = NoProfile
    /\ UNCHANGED <<envVars, profilerVars, withStack, exportPc, marks>>

\* The GPU finishes an ended query, whatever the order in which the queries
\* were queued.
GpuCompleteAny(h) ==
    /\ queries[h] = "ended"
    /\ queries' = [queries EXCEPT ![h] = "available"]
    /\ thrown' = "none"
    /\ result' = NoProfile
    /\ UNCHANGED <<envVars, profilerVars, withStack, exportPc, marks>>

\* ------------------------------------------------------ specifications
\* Spec: every call of start, stop, pushContext, popContext and
\* exportSpeedscopeProfile a caller can make, in any order, protocol
\* violations included, one export at a time. (withContext is its
\* pushContext and its popContext here: what its callback adds is in
\* SessionSpec.) The bound: a step that would create more than MaxQueries
\* queries, or push to that depth, is not taken.
Bounded ==
    /\ Len(queries') <= MaxQueries
    /\ Len(namedContextStack') < MaxQueries

Next ==
    \/ Start /\ Bounded /\ UNCHANGED <<open, exported>>
    \/ Stop /\ Bounded /\ UNCHANGED <<open, exported>>
    \/ \E name \in Names : PushContext(name) /\ Bounded /\ UNCHANGED <<open, exported>>
    \/ \E name \in PopNames : PopContext(name) /\ Bounded /\ UNCHANGED <<open, exported>>
    \/ ExportCall(1, Reports(Elapsed)) /\ UNCHANGED <<open, exported>>
    \/ ExportResume(1, Reports(Elapsed)) /\ UNCHANGED <<open, exported>>
    \/ \E h \in 1..Len(queries) : GpuComplete(h) /\ UNCHANGED <<open, exported>>

Spec == Init /\ [][Next]_vars

\* SessionSpec: the sessions start(); a well-nested sequence of pushContext,
\* popContext and withContext calls; stop(), one after the other, on a
\* device that has the extension and is not denylisted. `open` is the
\* caller's own account of the contexts it has open; an entry's `with` says
\* that withContext opened it, so that withContext is the one to close it.
\* An export is called between sessions and may resume at any point outside
\* a callback; every query reports the duration 1.
OpenEntry(name, with) == [name |-> name, with |-> with]

SessionBounded == Len(queries') <= MaxSessionQueries

SessionInit == Init /\ ext /\ ~denylisted

SessionNext ==
    \/ /\ open = <<>>
       /\ Start /\ SessionBounded
       /\ open' = <<OpenEntry(RootName, FALSE)>>
       /\ UNCHANGED exported
    \/ /\ open = <<OpenEntry(RootName, FALSE)>>
       /\ Stop /\ SessionBounded
       /\ open' = <<>>
       /\ UNCHANGED exported
    \/ \E name \in Names :
           /\ open # <<>>
           /\ PushContext(name) /\ SessionBounded
           /\ open' = Append(open, OpenEntry(name, FALSE))
           /\ UNCHANGED exported
    \/ \E name \in Names :
           /\ Len(open) >= 2 /\ Last(open) = OpenEntry(name, FALSE)
           /\ PopContext(name) /\ SessionBounded
           /\ open' = Front(open)
           /\ UNCHANGED exported
    \/ \E name \in Names :
           /\ open # <<>>
           /\ WithContextCall(name) /\ SessionBounded
           /\ open' = Append(open, OpenEntry(name, TRUE))
           /\ UNCHANGED exported
    \/ /\ Len(open) >= 2 /\ Last(open).with
       /\ WithContextReturn /\ SessionBounded
       /\ open' = Front(open)
       /\ UNCHANGED exported
    \/ open = <<>> /\ ExportCall(1, Reports({1})) /\ UNCHANGED <<open, exported>>
    \/ ExportResume(1, Reports({1})) /\ UNCHANGED <<open, exported>>
    \/ \E h \in 1..Len(queries) : GpuComplete(h) /\ UNCHANGED <<open, exported>>

SessionSpec == SessionInit /\ [][SessionNext]_vars

\* WithSpec: the sessions of SessionSpec in which the callback of a
\* withContext may also throw. The caller, who was promised the pop, takes
\* the context for closed when the Error reaches it.
WithNext ==
    \/ SessionNext
    \/ /\ Len(open) >= 2 /\ Last(open).with
       /\ WithContextThrow
       /\ open' = Front(open)
       /\ UNCHANGED exported

WithSpec == SessionInit /\ [][WithNext]_vars

\* LiveSpec: the calls of Spec on a device that has the extension, with a
\* GPU that never raises the disjoint flag and reports the duration 1. The
\* GPU finishes every query it was given (a query that was begun and
\* ended), and the browser runs every animation frame callback it was
\* asked for.
MaxLiveQueries == 6

LiveBounded ==
    /\ Len(queries') <= MaxLiveQueries
    /\ Len(namedContextStack') < MaxLiveQueries

LiveInit == Init /\ ext /\ ~denylisted

LiveNext ==
    \/ Start /\ LiveBounded /\ UNCHANGED <<open, exported>>
    \/ Stop /\ LiveBounded /\ UNCHANGED <<open, exported>>
    \/ PushContext("a") /\ LiveBounded /\ UNCHANGED <<open, exported>>
    \/ \E name \in {RootName, "a"} : PopContext(name) /\ LiveBounded /\ UNCHANGED <<open, exported>>
    \/ ExportCall(1, QuietReports({1})) /\ UNCHANGED <<open, exported>>
    \/ ExportResume(1, QuietReports({1})) /\ UNCHANGED <<open, exported>>
    \/ \E h \in 1..Len(queries) : GpuComplete(h) /\ UNCHANGED <<open, exported>>

LiveSpec ==
    /\ LiveInit
    /\ [][LiveNext]_vars
    /\ WF_vars(\E h \in 1..Len(queries) : GpuComplete(h) /\ UNCHANGED <<open, exported>>)
    /\ WF_vars(ExportResume(1, QuietReports({1})) /\ UNCHANGED <<open, exported>>)

\* OooSpec: the calls of LiveSpec (without its fairness) with a GPU whose
\* results become available in any order and which may raise the disjoint
\* flag.
MaxOooQueries == 5

OooBounded ==
    /\ Len(queries') <= MaxOooQueries
    /\ Len(namedContextStack') < MaxOooQueries

OooNext ==
    \/ Start /\ OooBounded /\ UNCHANGED <<open, exported>>
    \/ Stop /\ OooBounded /\ UNCHANGED <<open, exported>>
    \/ PushContext("a") /\ OooBounded /\ UNCHANGED <<open, exported>>
    \/ \E name \in {RootName, "a"} : PopContext(name) /\ OooBounded /\ UNCHANGED <<open, exported>>
    \/ ExportCall(1, Reports({1})) /\ UNCHANGED <<open, exported>>
    \/ ExportResume(1, Reports({1})) /\ UNCHANGED <<open, exported>>
    \/ \E h \in 1..Len(queries) : GpuCompleteAny(h) /\ UNCHANGED <<open, exported>>

OooSpec == LiveInit /\ [][OooNext]_vars

\* OverlapSpec: the sessions start(); well-nested pushContext("a") and
\* popContext("a") calls; stop(), each followed by exportSpeedscopeProfile
\* calls of the two exporters, whose turns interleave at their awaits in
\* any order, on the stopped profiler: the next start() comes when no
\* export waits. The GPU may raise the disjoint flag. `exported` keeps what
\* each exporter's call returned since the last start(), and whether the two
\* calls have waited at the same time.
MaxOverlapQueries == 8

OverlapBounded == Len(queries') <= MaxOverlapQueries

\* `exported` after a turn of exporter e.
Exported(e) ==
    [file |-> [exported.file EXCEPT ![e] = IF result' # NoProfile THEN result' ELSE @],
     overlapped |-> \/ exported.overlapped
                    \/ \A x \in Exporters : exportPc'[x] = "waiting"]

OverlapNext ==
    \/ /\ open = <<>>
       /\ \A e \in Exporters : exportPc[e] = "idle"
       /\ Start /\ OverlapBounded
       /\ open' = <<OpenEntry(RootName, FALSE)>>
       /\ exported' = NoExports
    \/ /\ open = <<OpenEntry(RootName, FALSE)>>
       /\ Stop /\ OverlapBounded
       /\ open' = <<>>
       /\ UNCHANGED exported
    \/ /\ open # <<>>
       /\ PushContext("a") /\ OverlapBounded
       /\ open' = Append(open, OpenEntry("a", FALSE))
       /\ UNCHANGED exported
    \/ /\ Len(open) >= 2
       /\ PopContext("a") /\ OverlapBounded
       /\ open' = Front(open)
       /\ UNCHANGED exported
    \/ \E e \in Exporters :
           /\ open = <<>>
           /\ ExportCall(e, Reports({1}))
           /\ exported' = Exported(e)
           /\ UNCHANGED open
    \/ \E e \in Exporters :
           /\ ExportResume(e, Reports({1}))
           /\ exported' = Exported(e)
           /\ UNCHANGED open
    \/ \E h \in 1..Len(queries) : GpuComplete(h) /\ UNCHANGED <<open, exported>>

OverlapSpec == LiveInit /\ [][OverlapNext]_vars

\* ---------------------------------------------------------------- claims
\* The events from index i on close, innermost first, the frames of `opened`
\* and every frame they open themselves.
RECURSIVE BalancedFrom(_, _, _)
BalancedFrom(events, i, opened) ==
    IF i > Len(events) THEN opened = <<>>
    ELSE IF events[i].type = "O"
         THEN BalancedFrom(events, i + 1, Append(opened, events[i].frame))
         ELSE /\ opened # <<>>
              /\ Last(opened) = events[i].frame
              /\ BalancedFrom(events, i + 1, Front(opened))

Balanced(events) == BalancedFrom(events, 1, <<>>)

\* What a reader of the file takes event k to be: its kind and the name of
\* the frame it refers to ("undefined" when it refers to none).
FrameName(p, f) ==
    IF f \in 0..(Len(p.frames) - 1) THEN p.frames[f + 1].name ELSE "undefined"

EventAction(p, k) ==
    [type |-> IF p.events[k].type = "O" THEN OPEN_FRAME ELSE CLOSE_FRAME,
     name |-> FrameName(p, p.events[k].frame)]

Returned == result # NoProfile

\* C1: the profile an export returns after a session start(); well-nested
\* pushContext/popContext/withContext calls; stop() is balanced and
\* LIFO-nested by frame index, begins with O(profile) and ends with
\* C(profile).
C1_SessionExportBalanced ==
    (Returned /\ open = <<>>) =>
        /\ Balanced(result.events)
        /\ result.events[1].type = "O"
        /\ FrameName(result, result.events[1].frame) = RootName
        /\ Last(result.events).type = "C"
        /\ Last(result.events).frame = result.events[1].frame

C1_Witness ==
    /\ Returned /\ open = <<>>
    /\ [k \in 1..Len(result.events) |-> result.events[k].type]
         = <<"O", "O", "O", "C", "C", "C">>
    /\ FrameName(result, result.events[2].frame) = "a"

\* C2: the timestamps of the resolved list never decrease, in every state;
\* the `at` values of an exported profile never decrease, its startValue is
\* 0 and its endValue is the `at` of its last event.
C2_TimestampsNonDecreasing ==
    /\ \A i \in 1..(Len(resolvedEvents) - 1) :
           resolvedEvents[i].timestamp <= resolvedEvents[i + 1].timestamp
    /\ Returned =>
           /\ \A i \in 1..(Len(result.events) - 1) :
                  result.events[i].at <= result.events[i + 1].at
           /\ result.startValue = 0
           /\ result.endValue = Last(result.events).at

C2_Witness ==
    /\ Returned
    /\ Len(result.events) >= 3
    /\ result.events[1].at < result.events[2].at
    /\ result.events[2].at = result.events[3].at

\* C3: the exported events are, in call order, the push/pop calls that
\* returned since start(), each with its kind and its name.
C3_OneEventPerCall ==
    Returned => [k \in 1..Len(result.events) |-> EventAction(result, k)] = marks

\* C4: a popContext(name) whose name is not the top of the context stack
\* throws, leaves the context stack as it was and adds nothing to the
\* pending queue.
C4_MismatchedPopLeavesStack ==
    [][\A name \in PopNames :
          (/\ namedContextStack # <<>>
           /\ Last(namedContextStack) # name
           /\ PopContext(name))
          => /\ thrown' # "none"
             /\ namedContextStack' = namedContextStack
             /\ eventsPendingTimestamps' = eventsPendingTimestamps]_vars

\* C5: a start() without the extension, while running or on a denylisted
\* device, and a stop() while not running, throw and change nothing of the
\* profiler and no query; a stop() without the extension returns and
\* changes nothing either.
C5_PreconditionFailuresChangeNothing ==
    [][/\ (Start /\ (~ext \/ isRunning \/ denylisted))
            => (thrown' # "none" /\ UNCHANGED <<profilerVars, queries>>)
       /\ (Stop /\ ext /\ ~isRunning)
            => (thrown' # "none" /\ UNCHANGED <<profilerVars, queries>>)
       /\ (Stop /\ ~ext)
            => (thrown' = "none" /\ UNCHANGED <<profilerVars, queries>>)]_vars

C5_Witness ==
    /\ thrown = "AlreadyRunning"
    /\ isRunning
    /\ Len(eventsPendingTimestamps) >= 2

\* C6: a stop() of a running profiler whose context stack is <<"profile">>
\* adds the one pending entry CLOSE("profile"), empties the context stack,
\* leaves no query active, clears isRunning and resolves nothing.
C6_StopClosesRoot ==
    [][(Stop /\ isRunning /\ namedContextStack = <<RootName>>)
          => /\ eventsPendingTimestamps' =
                   Append(eventsPendingTimestamps,
                          [action |-> CloseAction(RootName), query |-> activeQuery])
             /\ namedContextStack' = <<>>
             /\ activeQuery' = NoQuery
             /\ CurrentQuery(queries') = NoQuery
             /\ ~isRunning'
             /\ resolvedEvents' = resolvedEvents
             /\ thrown' = "none"]_vars

C6_Witness ==
    /\ ~isRunning
    /\ thrown = "none"
    /\ activeQuery = NoQuery
    /\ CurrentQuery(queries) = NoQuery
    /\ namedContextStack = <<>>
    /\ Len(eventsPendingTimestamps) = 2
    /\ Last(eventsPendingTimestamps).action = CloseAction(RootName)

\* C7: every profile an export returns is balanced and holds every action
\* marked in the session.
C7_NoPartialExport ==
    Returned => (Balanced(result.events) /\ Len(result.events) = Len(marks))

\* C8: a resolveEventsIfPossible that reads the disjoint flag true in its
\* k-th iteration throws, having added exactly the events of the k - 1
\* entries before it to the resolved list; the k-th and the later entries'
\* queries are not touched.
C8_DisjointStopsResolution ==
    [][\A g \in {r \in Reports(Elapsed) : r.d >= 1} :
          (/\ Len(eventsPendingTimestamps) > 0
           /\ (ExportCall(1, {g}) \/ ExportResume(1, {g})))
          => /\ thrown' = "GPU_DISJOINT_EXT"
             /\ Len(resolvedEvents') = Len(resolvedEvents) + g.d - 1
             /\ SubSeq(resolvedEvents', 1, Len(resolvedEvents)) = resolvedEvents
             /\ \A i \in 1..(g.d - 1) :
                    resolvedEvents'[Len(resolvedEvents) + i].action
                        = eventsPendingTimestamps[i].action
             /\ \A i \in g.d..Len(eventsPendingTimestamps) :
                    queries'[eventsPendingTimestamps[i].query]
                        = queries[eventsPendingTimestamps[i].query]]_vars

C8_Witness ==
    /\ thrown = "GPU_DISJOINT_EXT"
    /\ Len(resolvedEvents) = 2
    /\ Len(eventsPendingTimestamps) = 3
    /\ queries[eventsPendingTimestamps[3].query] = "available"

\* C9: an export never returns while a pending entry remains, and an export
\* that waits on a stopped profiler eventually completes.
C9_ExportCompletes ==
    /\ [](Returned => Len(eventsPendingTimestamps) = 0)
    /\ (exportPc[1] = "waiting" /\ ~isRunning /\ activeQuery = NoQuery)
           ~> (exportPc[1] = "idle")

\* C10: an exportSpeedscopeProfile that completes without the disjoint flag
\* does so with nothing pending; it throws "Profile is empty" exactly when
\* the resolved list is empty then, and returns a profile otherwise.
C10_EmptyProfileError ==
    [][(/\ exportPc'[1] = "idle"
        /\ thrown' # "GPU_DISJOINT_EXT"
        /\ \E g \in Reports(Elapsed) : ExportCall(1, {g}) \/ ExportResume(1, {g}))
          => /\ Len(eventsPendingTimestamps') = 0
             /\ (thrown' = "EmptyProfile") <=> (Len(resolvedEvents') = 0)
             /\ Returned' <=> (Len(resolvedEvents') > 0)
             /\ Returned' => thrown' = "none"]_vars

C10_Witness ==
    /\ thrown = "EmptyProfile"
    /\ queries = <<>>
    /\ ext

\* C11: a pushContext or popContext called while no measurement is active
\* (activeQuery is null: before the first start(), after a stop() that
\* returned; or the extension is missing) throws and leaves the context
\* stack and the pending queue as they were.
C11_MarkWithoutMeasurementFails ==
    [][\A name \in PopNames :
          (/\ activeQuery = NoQuery \/ ~ext
           /\ PushContext(name) \/ PopContext(name))
          => /\ thrown' # "none"
             /\ namedContextStack' = namedContextStack
             /\ eventsPendingTimestamps' = eventsPendingTimestamps]_vars

\* C12: after every start() that returns, the resolved list is empty, the
\* pending queue is the one entry OPEN("profile"), the context stack is
\* <<"profile">> and exactly one query, created by this call, is active.
C12_StartGivesFreshState ==
    [][(Start /\ thrown' = "none")
          => /\ resolvedEvents' = <<>>
             /\ Len(eventsPendingTimestamps') = 1
             /\ eventsPendingTimestamps'[1].action = OpenAction(RootName)
             /\ namedContextStack' = <<RootName>>
             /\ activeQuery' > Len(queries)
             /\ CurrentQuery(queries') = activeQuery'
             /\ isRunning']_vars

\* The names of the actions of res in first-seen order, each once.
RECURSIVE FirstSeen(_)
FirstSeen(res) ==
    IF res = <<>> THEN <<>>
    ELSE LET before == FirstSeen(Front(res))
             name == Last(res).action.name
         IN  IF \E i \in 1..Len(before) : before[i] = name THEN before
             ELSE Append(before, name)

\* C13: the frame table of an exported profile holds the names of the
\* resolved actions in first-seen order, each once, and every event's frame
\* index is the index of the name of the action the event was made from.
C13_FramesInterned ==
    Returned =>
        /\ [i \in 1..Len(result.frames) |-> result.frames[i].name]
               = FirstSeen(resolvedEvents)
        /\ \A k \in 1..Len(result.events) :
               FrameName(result, result.events[k].frame)
                   = resolvedEvents[k].action.name

\* The context stack is what the caller has open.
StackAsOpened ==
    namedContextStack = [i \in 1..Len(open) |-> open[i].name]

\* C14: when a withContext(name, body) whose body left the context stack as
\* it found it hands control back to its caller, by returning or because the
\* body threw, it has emitted CLOSE(name) and the context stack is what it
\* was before the call.
C14_WithContextAlwaysPops ==
    [][(/\ Len(open) >= 2 /\ Last(open).with
        /\ StackAsOpened
        /\ WithContextReturn \/ WithContextThrow)
          => /\ namedContextStack' = Front(namedContextStack)
             /\ Len(eventsPendingTimestamps') = Len(eventsPendingTimestamps) + 1
             /\ Last(eventsPendingTimestamps').action
                    = CloseAction(Last(namedContextStack))]_vars

\* C15: at most one query is active, and no query is begun while another
\* is active. The profiler begins every query it creates in the call that
\* creates it, and a rejected beginQueryEXT leaves its query "created": a
\* query that is still "created" after the call was begun while another
\* query was active.
C15_OneActiveQuery ==
    /\ Cardinality({h \in 1..Len(queries) : queries[h] = "active"}) <= 1
    /\ \A h \in 1..Len(queries) : queries[h] # "created"

ActionsOf(s) == [i \in 1..Len(s) |-> s[i].action]

\* C16: the resolved list is, in every state, the first of the actions
\* marked since start() in their order; and a step that resolves something
\* resolves the entries at the head of the pending queue, in their order,
\* all of them with an available result: none behind an entry whose result
\* is not there yet, even when its own result is.
C16_ResolvedInSubmissionOrder ==
    /\ [](/\ Len(resolvedEvents) <= Len(marks)
          /\ ActionsOf(resolvedEvents) = SubSeq(marks, 1, Len(resolvedEvents)))
    /\ [][(resolvedEvents' # resolvedEvents /\ resolvedEvents' # <<>>)
            => \E n \in 1..Len(eventsPendingTimestamps) :
                  /\ ActionsOf(resolvedEvents') =
                         ActionsOf(resolvedEvents)
                             \o ActionsOf(SubSeq(eventsPendingTimestamps, 1, n))
                  /\ \A j \in 1..n :
                         queries[eventsPendingTimestamps[j].query] = "available"]_vars

\* An export waits, having resolved something, while the result of the
\* second pending entry is there and that of the first is not: the turn the
\* export takes in this state leaves it as it is.
C16_Witness ==
    /\ exportPc[1] = "waiting"
    /\ Len(resolvedEvents) >= 1
    /\ Len(eventsPendingTimestamps) >= 2
    /\ queries[eventsPendingTimestamps[1].query] = "ended"
    /\ queries[eventsPendingTimestamps[2].query] = "available"

\* C17: when an export returns the profile of a session start(); ...;
\* stop(), every query created so far has been deleted.
C17_EveryQueryReleased ==
    (Returned /\ open = <<>>) =>
        \A h \in 1..Len(queries) : queries[h] = "deleted"

\* C18: an entry leaves the pending queue, by whatever call, only with its
\* query deleted.
C18_PendingLeavesReleased ==
    [][\A j \in 1..Len(eventsPendingTimestamps) :
          (\A i \in 1..Len(eventsPendingTimestamps') :
               eventsPendingTimestamps'[i].query # eventsPendingTimestamps[j].query)
          => queries'[eventsPendingTimestamps[j].query] = "deleted"]_vars

\* C20: in every state the actions of the resolved list followed by those
\* of the pending queue are the actions marked since the last start(), and
\* no pending entry's query is deleted.
C20_ResolvedThenPendingAreMarks ==
    /\ ActionsOf(resolvedEvents) \o ActionsOf(eventsPendingTimestamps) = marks
    /\ \A j \in 1..Len(eventsPendingTimestamps) :
           queries[eventsPendingTimestamps[j].query] # "deleted"

\* es[1] + ... + es[i]
RECURSIVE SumTo(_, _)
SumTo(es, i) == IF i = 0 THEN 0 ELSE SumTo(es, i - 1) + es[i]

\* What a markAction(action) that returned has done when `old` was the
\* query to close: one more pending entry, pairing the action with `old`,
\* which was the active query and is now ended; and a query created by the
\* call is the active one.
MarkedWith(action, old, pend) ==
    /\ eventsPendingTimestamps' = Append(pend, [action |-> action, query |-> old])
    /\ CurrentQuery(queries') = Len(queries')
    /\ Len(queries') > Len(queries)
    /\ queries'[old] = "ended"

\* C19: every markAction that returns queues one entry, pairing its action
\* with the query that was active up to the call, and makes a new query
\* the active one: in pushContext, in popContext and in the pushContext of
\* start(), whose query is the one start() created and began. And the
\* timestamp of every event a drain resolves is the last timestamp before
\* it (0 at first) plus the durations reported for the entries up to it.
C19_MarkPairsActiveQuery ==
    [][/\ \A name \in PopNames :
            /\ (PushContext(name) /\ ext /\ thrown' = "none")
                 => (/\ MarkedWith(OpenAction(name), activeQuery, eventsPendingTimestamps)
                     /\ CurrentQuery(queries) = activeQuery
                     /\ activeQuery' = Len(queries'))
            /\ (PopContext(name) /\ ext /\ thrown' = "none")
                 => (/\ MarkedWith(CloseAction(name), activeQuery, eventsPendingTimestamps)
                     /\ CurrentQuery(queries) = activeQuery
                     /\ activeQuery' = Len(queries'))
       /\ (Start /\ thrown' = "none")
            => (/\ MarkedWith(OpenAction(RootName), Len(queries) + 1, <<>>)
                /\ activeQuery' = Len(queries'))
       /\ \A g \in Reports(Elapsed) :
            (/\ Len(eventsPendingTimestamps) > 0
             /\ ExportCall(1, {g}) \/ ExportResume(1, {g}))
            => LET n == Len(resolvedEvents)
               IN  \A i \in 1..(Len(resolvedEvents') - n) :
                       resolvedEvents'[n + i].timestamp
                           = (IF n = 0 THEN 0 ELSE resolvedEvents[n].timestamp)
                                 + SumTo(g.es, i)]_vars

\* C21: in every state isProfilerRunning() is true exactly when activeQuery
\* is not null.
C21_RunningIffActiveQuery ==
    isProfilerRunning <=> (activeQuery # NoQuery)

\* C22: with export calls that overlap on a stopped profiler, the resolved
\* list is in every state the first of the marked actions, each once; every
\* profile a call has returned holds all of them, balanced, and is the
\* profile every other call has returned. A turn taken with the queue empty
\* completes its call, and a turn changes a pending entry's query only from
\* available to deleted, for exactly the entries it resolves.
C22_OverlappingExportsAgree ==
    /\ [](/\ Len(resolvedEvents) <= Len(marks)
          /\ ActionsOf(resolvedEvents) = SubSeq(marks, 1, Len(resolvedEvents))
          /\ \A e \in Exporters :
                exported.file[e] # NoProfile =>
                    /\ Len(exported.file[e].events) = Len(marks)
                    /\ Balanced(exported.file[e].events)
                    /\ \A x \in Exporters :
                           exported.file[x] # NoProfile
                               => exported.file[x] = exported.file[e])
    /\ [][\A e \in Exporters : \A g \in Reports({1}) :
            (ExportCall(e, {g}) \/ ExportResume(e, {g}))
            => /\ Len(eventsPendingTimestamps) = 0 =>
                     /\ exportPc'[e] = "idle"
                     /\ Len(resolvedEvents) > 0 => Returned'
               /\ \A j \in 1..Len(eventsPendingTimestamps) :
                     LET q == eventsPendingTimestamps[j].query
                     IN  IF j <= Len(resolvedEvents') - Len(resolvedEvents)
                         THEN queries[q] = "available" /\ queries'[q] = "deleted"
                         ELSE queries'[q] = queries[q]]_vars

\* Both calls have returned a profile of at least four events, having
\* waited at the same time.
C22_Witness ==
    /\ exported.overlapped
    /\ \A e \in Exporters :
           /\ exported.file[e] # NoProfile
           /\ Len(exported.file[e].events) >= 4

====
